---- MODULE Spec2Model ----
(***************************************************************************)
(* A model of provision_users.py: a batch job that reads config.toml and   *)
(* users.csv, obtains one Keycloak access token and, for every roster      *)
(* entry, checks whether the user exists, creates it when absent and       *)
(* triggers a password-reset email for the created account.                *)
(*                                                                         *)
(* Strings the program splits are sequences of one-character strings.      *)
(* The two input files and the provider's HTTP responses are the           *)
(* environment: the files are fixed by Init, each response is chosen when  *)
(* the request is made.  response is the last answer received, http is the  *)
(* history of the requests issued, each with what its operation returned.  *)
(***************************************************************************)
EXTENDS Integers, Sequences, FiniteSets, TLC

VARIABLES config_toml, users_csv, pc, config, users, token, i, user_id,
          error, response, http

vars == <<config_toml, users_csv, pc, config, users, token, i, user_id,
          error, response, http>>

----------------------------------------------------------------------------
(* Bounds of the model *)

MaxRows == 2        \* rows of users.csv in a run
MaxLoadRows == 2    \* rows of users.csv when only the loader is exercised
MaxCellLen == 3     \* characters of a Groups cell when only the loader is exercised
MaxLocLen == 2      \* characters of a Location header
MaxCount == 2       \* largest count the users/count endpoint reports

----------------------------------------------------------------------------
(* Generic helpers *)

Range(f) == {f[x] : x \in DOMAIN f}

SeqsUpTo(S, n) == UNION {[1..k -> S] : k \in 0..n}

Last(s) == s[Len(s)]

\* Python's None, for a str-valued slot and for a cell of a csv row
None == "<None>"
NoneCell == <<None>>

----------------------------------------------------------------------------
(* str.split(sep) and sep.join(parts) for a one-character separator *)

RECURSIVE SplitDropEmpty(_, _)
SplitDropEmpty(s, sep) ==
    IF \A k \in 1..Len(s) : s[k] # sep
    THEN IF s = <<>> THEN <<>> ELSE <<s>>
    ELSE LET k == CHOOSE j \in 1..Len(s) :
                      s[j] = sep /\ \A m \in 1..(j - 1) : s[m] # sep
             head == SubSeq(s, 1, k - 1)
         IN  (IF head = <<>> THEN <<>> ELSE <<head>>)
                 \o SplitDropEmpty(SubSeq(s, k + 1, Len(s)), sep)

RECURSIVE Split(_, _)
Split(s, sep) ==
    IF \A k \in 1..Len(s) : s[k] # sep
    THEN <<s>>
    ELSE LET k == CHOOSE j \in 1..Len(s) :
                      s[j] = sep /\ \A m \in 1..(j - 1) : s[m] # sep
         IN  <<SubSeq(s, 1, k - 1)>> \o Split(SubSeq(s, k + 1, Len(s)), sep)

RECURSIVE Join(_, _)
Join(parts, sep) ==
    IF Len(parts) = 0 THEN <<>>
    ELSE IF Len(parts) = 1 THEN parts[1]
    ELSE parts[1] \o <<sep>> \o Join(Tail(parts), sep)

----------------------------------------------------------------------------
(* config.toml *)

Params == {"keycloak_root", "keycloak_realm", "keycloak_admin",
           "keycloak_admin_password"}

GoodConfig ==
    [k \in Params |->
        CASE k = "keycloak_root" -> "https://idp.example"
          [] k = "keycloak_realm" -> "main"
          [] k = "keycloak_admin" -> "admin"
          [] OTHER -> "secret"]

\* The parsed documents considered: the complete one, and the ones with one
\* key missing, one value empty, or one key too many.
ConfigDocs ==
    {GoodConfig}
      \cup {[k \in Params \ {d} |-> GoodConfig[k]] : d \in Params}
      \cup {[k \in Params |-> IF k = d THEN "" ELSE GoodConfig[k]] : d \in Params}
      \cup {[k \in Params \cup {"extra"} |->
                IF k = "extra" THEN "x" ELSE GoodConfig[k]]}

ConfigFiles ==
    {[kind |-> "missing"], [kind |-> "malformed"]}
      \cup {[kind |-> "toml", data |-> d] : d \in ConfigDocs}

\* load_config: open() and tomllib.load() raise, or the parsed dict is returned
LoadConfigRaises(file) == file.kind # "toml"
load_config(file) == file.data

----------------------------------------------------------------------------
(* users.csv *)

Header == <<"First Name", "Last Name", "User Name", "Email", "Groups">>

Without(h, col) == SelectSeq(h, LAMBDA c : c # col)

UserNames == {<<"a">>, <<"b">>}

Row(h, name, groups) ==
    [j \in 1..Len(h) |->
        CASE h[j] = "User Name" -> name
          [] h[j] = "Groups" -> groups
          [] OTHER -> <<"x">>]

\* csv.DictReader: the row as a dict keyed by the header; a row shorter than
\* the header has None (restval) for the columns it lacks.
Index(h, col) == CHOOSE j \in 1..Len(h) : h[j] = col /\ \A m \in (j + 1)..Len(h) : h[m] # col

DictRow(h, row) ==
    [col \in Range(h) |->
        IF Index(h, col) <= Len(row) THEN row[Index(h, col)] ELSE NoneCell]

\* csv.DictReader skips the rows that have no field at all (blank lines)
DataRows(file) == SelectSeq(file.rows, LAMBDA r : r # <<>>)

\* load_users, line 40: user["Groups"] raises KeyError without the column and
\* None.split raises AttributeError for a row that lacks the cell
GroupsRaises(h, row) ==
    \/ "Groups" \notin Range(h)
    \/ DictRow(h, row)["Groups"] = NoneCell

LoadUsersRaises(file) ==
    \/ file.kind # "csv"
    \/ \E k \in 1..Len(DataRows(file)) : GroupsRaises(file.header, DataRows(file)[k])

LoadedUser(h, row) ==
    [col \in Range(h) |->
        IF col = "Groups" THEN Split(DictRow(h, row)[col], ",")
        ELSE DictRow(h, row)[col]]

load_users(file) ==
    [k \in 1..Len(DataRows(file)) |-> LoadedUser(file.header, DataRows(file)[k])]

\* The rosters of a run: the Groups cell is "e,o"
RunGroupCells == {<<"e", ",", "o">>}

RunRows == {Row(Header, n, g) : n \in UserNames, g \in RunGroupCells}

\* a row that stops before its Groups cell, and a blank line
ShortRow == SubSeq(Row(Header, <<"a">>, <<>>), 1, Len(Header) - 1)
BlankRow == <<>>

CsvFile(h, rows) == [kind |-> "csv", header |-> h, rows |-> rows]

\* a roster whose header lacks one column
RostersWithout(c) ==
    {CsvFile(Without(Header, c), r) :
        r \in SeqsUpTo({Row(Without(Header, c), <<"a">>, <<>>)}, MaxRows)}

RosterFiles ==
    {[kind |-> "missing"], [kind |-> "malformed"], CsvFile(<<>>, <<>>)}
      \cup {CsvFile(Header, r) :
                r \in SeqsUpTo(RunRows \cup {ShortRow, BlankRow}, MaxRows)}
      \cup UNION {RostersWithout(c) : c \in {"First Name", "User Name", "Groups"}}

\* The rosters given to the loader alone: every Groups cell over the alphabet
CellAlphabet == {",", "e"}

LoadRows ==
    {Row(Header, <<"a">>, g) : g \in SeqsUpTo(CellAlphabet, MaxCellLen)}
      \cup {ShortRow, BlankRow}

LoadRosterFiles ==
    {[kind |-> "missing"]}
      \cup {CsvFile(Header, r) : r \in SeqsUpTo(LoadRows, MaxLoadRows)}

----------------------------------------------------------------------------
(* The provider's answers *)

Tokens == {"t1", "t2"}

Statuses == {200, 201, 204, 304, 401, 409, 503}

\* requests raised before a response arrived (timeout, connection error)
NoResponse == [kind |-> "none"]

Response(status, body, headers) ==
    [kind |-> "http", status |-> status, body |-> body, headers |-> headers]

NotJson == [json |-> FALSE]
JsonObject(obj) == [json |-> TRUE, type |-> "object", value |-> obj]
JsonNumber(n) == [json |-> TRUE, type |-> "number", value |-> n]

NoHeaders == <<>>

TokenObjects ==
    {("access_token" :> t) @@ ("expires_in" :> 60) : t \in Tokens}
      \cup {("access_token" :> "t1"), ("expires_in" :> 60)}

\* a 204 or 304 answer carries no body: resp.json() has nothing to parse
Bodies(status, bodies) == IF status \in {204, 304} THEN {NotJson} ELSE bodies

TokenResponses ==
    UNION {{Response(s, b, NoHeaders) :
               b \in Bodies(s, {NotJson} \cup {JsonObject(o) : o \in TokenObjects})} :
           s \in Statuses}

CountResponses ==
    UNION {{Response(s, b, NoHeaders) :
               b \in Bodies(s, {NotJson, JsonObject(<<>>)}
                                  \cup {JsonNumber(n) : n \in 0..MaxCount})} :
           s \in Statuses}

Locations == SeqsUpTo({"/", "u"}, MaxLocLen)

CreateResponses ==
    {Response(s, NotJson, h) :
        s \in Statuses,
        h \in {NoHeaders} \cup {("Location" :> loc) : loc \in Locations}}

ResetResponses == {Response(s, NotJson, NoHeaders) : s \in Statuses}

\* Response.raise_for_status(): HTTPError for a 4xx or 5xx status
OnlyServerErrorsRaise(status) == 500 <= status /\ status < 600

raise_for_status(status) == 400 <= status /\ status < 600

\* requests refuses, before sending anything, a URL that has no scheme
HasScheme(root) == root = "https://idp.example"

----------------------------------------------------------------------------
(* The four network operations: the error each raises on a response ("" when *)
(* it returns) and the value it returns                                     *)

\* get_token(**config) binds the dict's keys to the four parameters
\* (the first definition is a get_token whose password parameter has a default)
BindsWithDefault(cfg) ==
    /\ DOMAIN cfg \subseteq Params
    /\ Params \ {"keycloak_admin_password"} \subseteq DOMAIN cfg

BindsArguments(cfg) == DOMAIN cfg = Params

get_token_error(resp) ==
    IF resp.kind = "none" THEN "RequestException"
    ELSE IF raise_for_status(resp.status) THEN "HTTPError"
    ELSE IF ~resp.body.json THEN "JSONDecodeError"
    ELSE IF "access_token" \notin DOMAIN resp.body.value THEN "KeyError"
    ELSE IF "expires_in" \notin DOMAIN resp.body.value THEN "KeyError"
    ELSE ""

get_token(resp) == resp.body.value["access_token"]

\* the Authorization header of check_user, create_user, reset_user_password
FixedBearer(tok) == "t1"

auth_headers(tok) == tok

check_user_error(resp) ==
    IF resp.kind = "none" THEN "RequestException"
    ELSE IF raise_for_status(resp.status) THEN "HTTPError"
    ELSE IF ~resp.body.json THEN "JSONDecodeError"
    ELSE ""

\* user_count == 0 gives False, anything else gives True
check_user_exactly_one(resp) ==
    resp.body.type = "number" /\ resp.body.value = 1

check_user(resp) ==
    ~(resp.body.type = "number" /\ resp.body.value = 0)

\* a create_user that reads the header with a default instead of indexing it
create_user_error_default(resp) ==
    IF resp.kind = "none" THEN "RequestException"
    ELSE IF raise_for_status(resp.status) THEN "HTTPError"
    ELSE ""

create_user_error(resp) ==
    IF resp.kind = "none" THEN "RequestException"
    ELSE IF raise_for_status(resp.status) THEN "HTTPError"
    ELSE IF "Location" \notin DOMAIN resp.headers THEN "KeyError"
    ELSE ""

\* location.split("/")[-1]
FirstSegment(location) == Head(Split(location, "/"))

UserIdOf(location) == Last(Split(location, "/"))

create_user(resp) ==
    IF "Location" \in DOMAIN resp.headers
    THEN UserIdOf(resp.headers["Location"])
    ELSE <<>>

reset_user_password_error(resp) ==
    IF resp.kind = "none" THEN "RequestException"
    ELSE IF raise_for_status(resp.status) THEN "HTTPError"
    ELSE ""

\* the keys create_user reads from the roster entry (lines 101, 109-113)
UserKeys == {"First Name", "Last Name", "User Name", "Email", "Groups"}

user_settings(user) ==
    [firstName |-> user["First Name"], lastName |-> user["Last Name"],
     username |-> user["User Name"], email |-> user["Email"],
     groups |-> user["Groups"], enabled |-> TRUE]

----------------------------------------------------------------------------
(* main(): the position after each call of lines 153-163 *)

\* for user in users: the next entry, or the end of main
LoopHead(k) ==
    IF k <= Len(users) THEN [pc |-> "check_user", i |-> k]
    ELSE [pc |-> "done", i |-> k]

\* a main that creates whatever check_user answers
main_next_always_creates(at, ret, k) ==
    IF at = "get_token" THEN LoopHead(1)
    ELSE IF at = "check_user" THEN [pc |-> "create_user", i |-> k]
    ELSE IF at = "create_user" THEN [pc |-> "reset_user_password", i |-> k]
    ELSE LoopHead(k + 1)

\* a main that leaves the created account without its reset email
main_next_no_reset(at, ret, k) ==
    IF at = "get_token" THEN LoopHead(1)
    ELSE IF at = "check_user"
         THEN IF ret THEN LoopHead(k + 1) ELSE [pc |-> "create_user", i |-> k]
    ELSE LoopHead(k + 1)

main_next(at, ret, k) ==
    IF at = "get_token" THEN LoopHead(1)
    ELSE IF at = "check_user"
         THEN IF ret THEN LoopHead(k + 1) ELSE [pc |-> "create_user", i |-> k]
    ELSE IF at = "create_user" THEN [pc |-> "reset_user_password", i |-> k]
    ELSE LoopHead(k + 1)

\* an uncaught exception ends the process
Raise(err) == pc' = "aborted" /\ error' = err

\* a request is sent: response is the answer and the history gains the request
\* with whether the operation returned (ok) and what it returned (ret)
Sent(op, arg, answer, err, ret) ==
    /\ response' = answer
    /\ http' = Append(http,
          [op |-> op, entry |-> i,
           root |-> config["keycloak_root"], realm |-> config["keycloak_realm"],
           bearer |-> IF op = "token" THEN None ELSE auth_headers(token),
           arg |-> arg, ok |-> (err = ""), ret |-> ret])

----------------------------------------------------------------------------
(* The steps of main() *)

\* line 151
LoadConfig ==
    /\ pc = "load_config"
    /\ IF LoadConfigRaises(config_toml)
       THEN Raise("ConfigError") /\ UNCHANGED config
       ELSE /\ config' = load_config(config_toml)
            /\ pc' = "load_users"
            /\ UNCHANGED error
    /\ UNCHANGED <<config_toml, users_csv, users, token, i, user_id, response, http>>

\* line 152
LoadUsers ==
    /\ pc = "load_users"
    /\ IF LoadUsersRaises(users_csv)
       THEN Raise("RosterError") /\ UNCHANGED users
       ELSE /\ users' = load_users(users_csv)
            /\ pc' = "get_token"
            /\ UNCHANGED error
    /\ UNCHANGED <<config_toml, users_csv, config, token, i, user_id, response, http>>

\* line 153
GetToken ==
    /\ pc = "get_token"
    /\ IF ~BindsArguments(config)
       THEN Raise("TypeError") /\ UNCHANGED <<token, i, response, http>>
       ELSE IF ~HasScheme(config["keycloak_root"])
       THEN Raise("MissingSchema") /\ UNCHANGED <<token, i, response, http>>
       ELSE \E answer \in TokenResponses \cup {NoResponse} :
              LET err == get_token_error(answer)
                  nxt == main_next("get_token", TRUE, i)
              IN  IF err # ""
                  THEN /\ Sent("token", config["keycloak_admin"], answer, err, None)
                       /\ Raise(err)
                       /\ UNCHANGED <<token, i>>
                  ELSE /\ Sent("token", config["keycloak_admin"], answer, err,
                               get_token(answer))
                       /\ token' = get_token(answer)
                       /\ pc' = nxt.pc
                       /\ i' = nxt.i
                       /\ UNCHANGED error
    /\ UNCHANGED <<config_toml, users_csv, config, users, user_id>>

\* lines 155-157
CheckUser ==
    /\ pc = "check_user"
    /\ IF "User Name" \notin DOMAIN users[i]
       THEN Raise("KeyError") /\ UNCHANGED <<i, response, http>>
       ELSE \E answer \in CountResponses \cup {NoResponse} :
              LET err == check_user_error(answer)
                  nxt == main_next("check_user", check_user(answer), i)
              IN  IF err # ""
                  THEN /\ Sent("count", users[i]["User Name"], answer, err, None)
                       /\ Raise(err)
                       /\ UNCHANGED i
                  ELSE /\ Sent("count", users[i]["User Name"], answer, err,
                               check_user(answer))
                       /\ pc' = nxt.pc
                       /\ i' = nxt.i
                       /\ UNCHANGED error
    /\ UNCHANGED <<config_toml, users_csv, config, users, token, user_id>>

\* lines 158-160
CreateUser ==
    /\ pc = "create_user"
    /\ IF ~(UserKeys \subseteq DOMAIN users[i])
       THEN Raise("KeyError") /\ UNCHANGED <<i, user_id, response, http>>
       ELSE \E answer \in CreateResponses \cup {NoResponse} :
              LET err == create_user_error(answer)
                  nxt == main_next("create_user", TRUE, i)
              IN  IF err # ""
                  THEN /\ Sent("create", user_settings(users[i]), answer, err, None)
                       /\ Raise(err)
                       /\ UNCHANGED <<i, user_id>>
                  ELSE /\ Sent("create", user_settings(users[i]), answer, err,
                               create_user(answer))
                       /\ user_id' = create_user(answer)
                       /\ pc' = nxt.pc
                       /\ i' = nxt.i
                       /\ UNCHANGED error
    /\ UNCHANGED <<config_toml, users_csv, config, users, token>>

\* lines 161-163
ResetUserPassword ==
    /\ pc = "reset_user_password"
    /\ \E answer \in ResetResponses \cup {NoResponse} :
         LET err == reset_user_password_error(answer)
             nxt == main_next("reset_user_password", TRUE, i)
         IN  /\ Sent("reset", user_id, answer, err, None)
             /\ IF err # ""
                THEN Raise(err) /\ UNCHANGED i
                ELSE /\ pc' = nxt.pc
                     /\ i' = nxt.i
                     /\ UNCHANGED error
    /\ UNCHANGED <<config_toml, users_csv, config, users, token, user_id>>

----------------------------------------------------------------------------
(* The run of the script *)

Start(configs, rosters) ==
    /\ config_toml \in configs
    /\ users_csv \in rosters
    /\ pc = "load_config"
    /\ config = <<>>
    /\ users = <<>>
    /\ token = None
    /\ i = 0
    /\ user_id = NoneCell
    /\ error = ""
    /\ response = NoResponse
    /\ http = <<>>

Init == Start(ConfigFiles, RosterFiles)

Next ==
    \/ LoadConfig
    \/ LoadUsers
    \/ GetToken
    \/ CheckUser
    \/ CreateUser
    \/ ResetUserPassword

Spec == Init /\ [][Next]_vars

(* The roster loader alone, on every roster over the cell alphabet *)

InitLoad == Start({[kind |-> "toml", data |-> GoodConfig]}, LoadRosterFiles)

NextLoad ==
    \/ LoadConfig
    \/ LoadUsers

SpecLoad == InitLoad /\ [][NextLoad]_vars

----------------------------------------------------------------------------
(* Reading the history *)

Entries(op) == {k \in 1..Len(http) : http[k].op = op}

EntriesFor(op, e) == {k \in Entries(op) : http[k].entry = e}

\* the operation at position k returned (did not raise)
Returned(k) == http[k].ok

\* the last request is the one response answers
Answered(op) ==
    /\ http # <<>>
    /\ Last(http).op = op
    /\ response.kind = "http"

\* id is the part of loc after its last "/" (all of loc when it has none)
IsTrailingSegment(id, loc) ==
    \E p \in 0..Len(loc) :
        /\ id = SubSeq(loc, p + 1, Len(loc))
        /\ \A k \in 1..Len(id) : id[k] # "/"
        /\ p = 0 \/ loc[p] = "/"

Commas(cell) == Cardinality({k \in 1..Len(cell) : cell[k] = ","})

----------------------------------------------------------------------------
(* C1: for an entry whose existence check answered that the user exists,    *)
(* no create-user and no password-reset request is ever issued, and right   *)
(* after the check the run is at the next entry (or done) with no error.    *)
C1_ExistingUserIsSkipped ==
    \A k \in Entries("count") :
        (Returned(k) /\ http[k].ret) =>
            /\ EntriesFor("create", http[k].entry) = {}
            /\ EntriesFor("reset", http[k].entry) = {}
            /\ k = Len(http) =>
                 /\ error = ""
                 /\ i = http[k].entry + 1
                 /\ pc = IF i <= Len(users) THEN "check_user" ELSE "done"

\* a run that skipped its first entry and went on to provision the second
C1_Witness ==
    /\ pc = "done"
    /\ Len(users) = 2
    /\ \E k \in EntriesFor("count", 1) : Returned(k) /\ http[k].ret
    /\ EntriesFor("reset", 2) # {}

(* C2: for an entry whose existence check answered that the user is absent, *)
(* in a run where every request succeeds (the run is done): exactly one     *)
(* create request for that entry follows the check, exactly one reset       *)
(* request follows the create, and the id passed to the reset is the        *)
(* trailing path segment of the Location header of that entry's create.     *)
C2_AbsentUserCreatedThenReset ==
    /\ pc = "done" =>
         \A k \in Entries("count") :
            ~http[k].ret =>
               LET e == http[k].entry IN
               /\ EntriesFor("create", e) = {k + 1}
               /\ EntriesFor("reset", e) = {k + 2}
               /\ http[k + 1].arg.username = users[e]["User Name"]
               /\ http[k + 2].arg = http[k + 1].ret
    /\ pc = "reset_user_password" =>
         /\ Answered("create")
         /\ Last(http).entry = i
         /\ Last(http).ret = user_id
         /\ IsTrailingSegment(user_id, response.headers["Location"])
    /\ \A k \in Entries("reset") :
         /\ k - 1 \in EntriesFor("create", http[k].entry)
         /\ Returned(k - 1)
         /\ http[k].arg = http[k - 1].ret

\* two entries were created and reset, under two different ids
C2_Witness ==
    /\ pc = "done"
    /\ \E k \in EntriesFor("reset", 1) :
         \E m \in EntriesFor("reset", 2) :
            http[k].arg = <<"u">> /\ http[m].arg = <<>>

(* C3, as stated: whenever an operation has received a status outside 2xx,  *)
(* the run is aborted.                                                      *)
C3_NonSuccessStatusAborts ==
    (http # <<>> /\ response.kind = "http"
        /\ ~(200 <= response.status /\ response.status <= 299))
      => pc = "aborted"

(* C3, amended: a step is never taken from an aborted or done run, and a    *)
(* step in which an operation receives a 4xx or 5xx status ends with the    *)
(* operation having raised and the run aborted; so no request of any kind   *)
(* follows, and the run does not reach done.                                *)
C3_ErrorStatusAborts ==
    [][/\ pc \notin {"aborted", "done"}
       /\ (response'.kind = "http"
             /\ 400 <= response'.status /\ response'.status <= 599)
            => (pc' = "aborted" /\ ~Last(http').ok /\ error' = "HTTPError")]_vars

\* the reset of the first of two entries was answered 503 and the run stopped
C3_Witness ==
    /\ Answered("reset")
    /\ response.status = 503
    /\ pc = "aborted"
    /\ i = 1
    /\ Len(users) = 2

(* C4: when the configuration or the roster is defective (a file missing or *)
(* malformed, a required configuration key absent, a required roster column *)
(* absent from the header row), no network request is ever issued.          *)
C4_DefectiveInputSendsNothing ==
    (\/ config_toml.kind # "toml"
     \/ ~(Params \subseteq DOMAIN config_toml.data)
     \/ users_csv.kind # "csv"
     \/ (users_csv.header # <<>> /\ ~(UserKeys \subseteq Range(users_csv.header))))
      => http = <<>>

(* C5: the token endpoint is called at most once and first; every count,    *)
(* create and reset request carries the token that call returned.           *)
C5_OneTokenForAllRequests ==
    /\ Entries("token") \subseteq {1}
    /\ \A k \in 1..Len(http) :
         http[k].op # "token" =>
            /\ http[1].op = "token"
            /\ Returned(1)
            /\ http[k].bearer = http[1].ret
            /\ token = http[1].ret

\* the provider issued t2 and a second entry was provisioned with it
C5_Witness ==
    /\ pc = "done"
    /\ http[1].ret = "t2"
    /\ EntriesFor("count", 2) # {}
    /\ EntriesFor("reset", 2) # {}

(* C6: when a create request is answered with a 2xx status and no Location  *)
(* header, create_user raises (it returns no id), the run is aborted with   *)
(* nothing left to do: no reset for the entry, no later entry.              *)
C6_CreateWithoutLocationAborts ==
    (Answered("create")
        /\ 200 <= response.status /\ response.status <= 299
        /\ "Location" \notin DOMAIN response.headers)
      => /\ ~Last(http).ok
         /\ error = "KeyError"
         /\ pc = "aborted"
         /\ ~ENABLED Next

\* the create of the first of two entries came back 201 without a Location
C6_Witness ==
    /\ Answered("create")
    /\ response.status = 201
    /\ "Location" \notin DOMAIN response.headers
    /\ i = 1
    /\ Len(users) = 2

(* C7, as stated (its observable half): with a configuration in which one   *)
(* of the four fields is missing or is the empty string, no token request   *)
(* is ever sent.                                                            *)
C7_MissingOrEmptyFieldSendsNoToken ==
    (config_toml.kind = "toml"
        /\ \E k \in Params :
             \/ k \notin DOMAIN config_toml.data
             \/ config_toml.data[k] = "")
      => Entries("token") = {}

(* C7, amended: with a configuration in which one of the four fields is     *)
(* missing, the run never sends the token request and never gets past       *)
(* get_token (an empty string is not rejected).                             *)
C7_MissingFieldSendsNoToken ==
    (config_toml.kind = "toml"
        /\ \E k \in Params : k \notin DOMAIN config_toml.data)
      => /\ http = <<>>
         /\ pc \in {"load_config", "load_users", "get_token", "aborted"}

\* the password is missing, the roster loaded, and binding the arguments raised
C7_Witness ==
    /\ config_toml.kind = "toml"
    /\ "keycloak_admin_password" \notin DOMAIN config_toml.data
    /\ Len(users) = 2
    /\ pc = "aborted"
    /\ error = "TypeError"

(* C8: on a count the provider reports with a non-error status, check_user  *)
(* returns False for 0 and True for every positive count; main stays on the *)
(* entry in the first case and is at the next entry in the second.          *)
C8_CheckUserIffNonzero ==
    (Answered("count") /\ Last(http).ok /\ response.body.type = "number")
      => /\ Last(http).ret = (response.body.value > 0)
         /\ response.body.value = 0 => i = Last(http).entry
         /\ response.body.value > 0 => (pc # "create_user" /\ i = Last(http).entry + 1)

\* the provider reported a count above one
C8_Witness ==
    /\ Answered("count")
    /\ Last(http).ok
    /\ response.body.type = "number"
    /\ response.body.value > 1
    /\ pc = "check_user"

(* C9: for a roster with the full header whose rows all have every cell,    *)
(* load_users returns one entry per row in file order; each entry's Groups  *)
(* is the cell cut at every comma: as many parts as commas plus one, none   *)
(* holding a comma, and joined with commas they give the cell back.         *)
C9_LoadUsersSplitsGroups ==
    (/\ pc \notin {"load_config", "load_users"}
     /\ users_csv.kind = "csv"
     /\ users_csv.header = Header
     /\ \A k \in 1..Len(users_csv.rows) : Len(users_csv.rows[k]) = Len(Header))
      => /\ pc # "aborted"
         /\ Len(users) = Len(users_csv.rows)
         /\ \A k \in 1..Len(users) :
              LET cell == users_csv.rows[k][5]
                  groups == users[k]["Groups"]
              IN  /\ users[k]["User Name"] = users_csv.rows[k][3]
                  /\ Len(groups) = Commas(cell) + 1
                  /\ \A g \in 1..Len(groups) : Commas(groups[g]) = 0
                  /\ Join(groups, ",") = cell

\* the empty cell gave [""] and "e,e" gave ["e", "e"], in file order
C9_Witness ==
    /\ pc = "get_token"
    /\ Len(users) = 2
    /\ users[1]["Groups"] = << <<>> >>
    /\ users[2]["Groups"] = << <<"e">>, <<"e">> >>

(* C10: the create_user calls that returned are at most one more than the   *)
(* reset requests issued, and as many between entries and at the end; an    *)
(* aborted run has at most one returned create whose reset did not return.  *)
C10_ResetFollowsEveryCreate ==
    LET created == Cardinality({k \in Entries("create") : Returned(k)})
        resets == Cardinality(Entries("reset"))
        resetOk == Cardinality({k \in Entries("reset") : Returned(k)})
    IN  /\ created - resets \in {0, 1}
        /\ pc \in {"check_user", "done"} => created = resets /\ created = resetOk
        /\ pc = "aborted" => created - resetOk \in {0, 1}

\* the second account was created and its reset failed
C10_Witness ==
    /\ pc = "aborted"
    /\ Answered("reset")
    /\ Cardinality({k \in Entries("create") : Returned(k)}) = 2
    /\ Cardinality({k \in Entries("reset") : Returned(k)}) = 1

====
